---- MODULE Spec2Model ----
(***************************************************************************)
(* Model of imgadd.c: the two elementwise image adders img_add_kr          *)
(* (saturating, unsigned char output) and img_add (widening, unsigned      *)
(* short output), each in its three build variants (__WIN_SSE__,           *)
(* __WIN_AVX__, neither).                                                  *)
(*                                                                         *)
(* One behaviour is one input (A, width, height, B, C) given to the        *)
(* library built in up to three configurations, one after the other, so    *)
(* that the outputs of the strategies can be compared.                     *)
(*                                                                         *)
(* `unsigned int` is modelled at width UIntBits; all its arithmetic is     *)
(* taken modulo 2^UIntBits exactly as C takes it modulo 2^32.              *)
(***************************************************************************)
EXTENDS Integers, Sequences, FiniteSets, TLC

\* Width in bits of the modelled `unsigned int`.
UIntBits == 7

UIntMod == 2 ^ UIntBits

UIntMax == UIntMod - 1

\* Largest unsigned char; the clamp value of the scalar saturating kernel.
UCHAR_MAX == 255

\* Pixels per loop step of the SSE kernels.
ppl_sse == 16

\* Pixels per loop step of the AVX kernels.
ppl_avx == 32

\* Pixels per store of img_add_sse.
pps_sse == 8

\* Pixels per store of img_add_avx.
pps_avx == 16

\* The value of a byte (or short) whose content is indeterminate: a cell of
\* the output buffer that was never written, or the result of a read outside
\* a buffer.  Every operation on an indeterminate value is indeterminate.
Indet == 0 - 1

VARIABLES
    defs,      \* the macros defined in the current build
    kernel,    \* the entry point the caller uses: "kr" or "add"
    width,     \* argument width
    height,    \* argument height
    pa,        \* the pattern A was filled with by the caller
    pb,        \* the pattern B was filled with by the caller
    nulls,     \* which of the pointer arguments A, B, C are null
    mem,       \* the three buffers: mem.A, mem.B, mem.C (a null pointer has no cells)
    pc,        \* where the call is
    npixels,   \* local npixels of the running strategy function
    i,         \* local i of the running strategy function
    j,         \* local j of the running strategy function (widening vector kernels)
    rd,        \* history: element indices of A and B the call has loaded
    wr,        \* history: element indices of C the call has stored to
    entered,   \* history: strategy functions entered by the call
    wrapped,   \* history: i has overflowed in `i += ppl` / `i++`
    out        \* history: the output each finished build produced, by strategy

vars == <<defs, kernel, width, height, pa, pb, nulls, mem, pc, npixels, i, j,
          rd, wr, entered, wrapped, out>>

----------------------------------------------------------------------------
(* Inputs *)

WinMacros == {"__WIN_SSE__", "__WIN_AVX__"}

Macros == WinMacros \cup {"NDEBUG"}

Kernels == {"kr", "add"}

\* (width, height) pairs: empty images, the 4x1 example, one and several
\* lanes, counts that are no multiple of a lane, counts next to the largest
\* unsigned int, and products that exceed it.
Dims ==
    { <<0, 0>>, <<0, 3>>, <<5, 0>>, <<4, 1>>, <<16, 1>>, <<8, 4>>, <<16, 3>>,
      <<32, 2>>, <<UIntMax, 1>>, <<UIntMod - 16, 1>>,
      <<UIntMod \div 16, 16>>, <<UIntMod \div 16 + 2, 16>>,
      <<UIntMod \div 2 + 2, 2>> }

\* A pixel pattern <<base, stride>>: element k holds (base + k*stride) mod 256.
Pixel(p, k) == (p[1] + k * p[2]) % (UCHAR_MAX + 1)

\* (A, B) pattern pairs: all zero, all max, two ramps, a ramp and zero.
Inputs ==
    { << <<0, 0>>, <<0, 0>> >>, << <<255, 0>>, <<255, 0>> >>,
      << <<10, 7>>, <<20, 13>> >>, << <<1, 1>>, <<0, 0>> >> }

\* Which of the three pointer arguments are null.
NullArgs == { {}, {"A"}, {"B"}, {"C"}, {"A", "B", "C"} }

RoundUp(n, m) == ((n + m - 1) \div m) * m

\* The cells of a buffer of n elements; a null pointer has none.
Cells(isNull, n) == IF isNull THEN {} ELSE 0 .. n - 1

\* An input buffer of n elements the caller filled with pattern p.
Filled(isNull, n, p) == [k \in Cells(isNull, n) |-> Pixel(p, k)]

\* An output buffer over the cells S that nothing was stored to yet.
Fresh(S) == [k \in S |-> Indet]

----------------------------------------------------------------------------
(* Build configuration *)

\* #ifdef __WIN_SSE__ ... #elif __WIN_AVX__ ... #else ... #endif
Strategy(d) ==
    IF "__WIN_SSE__" \in d THEN "sse"
    ELSE IF "__WIN_AVX__" \in d THEN "avx"
    ELSE "nsu"

Strategies == {"sse", "avx", "nsu"}

\* Name of the strategy function a kernel's entry point calls.
FunctionName(k, s) == (IF k = "kr" THEN "img_add_kr_" ELSE "img_add_") \o s

\* Elements consumed by one loop iteration of a strategy.
Lane(s) == IF s = "sse" THEN ppl_sse ELSE IF s = "avx" THEN ppl_avx ELSE 1

----------------------------------------------------------------------------
(* Machine arithmetic and vector intrinsics *)

\* unsigned int arithmetic
UMul(a, b) == (a * b) % UIntMod

UAdd(a, b) == (a + b) % UIntMod

Span(base, n) == base .. base + n - 1

\* An unaligned load of n elements at buf + base.
loadu(buf, base, n) ==
    [k \in 0 .. n - 1 |-> IF base + k \in DOMAIN buf THEN buf[base + k] ELSE Indet]

mm_loadu_si128(buf, base) == loadu(buf, base, 16)

mm256_loadu_si256(buf, base) == loadu(buf, base, 32)

\* An unaligned store of the lanes of V at buf + base; cells outside the
\* buffer are not part of it.
storeu(buf, base, V) ==
    [k \in DOMAIN buf |-> IF k - base \in DOMAIN V THEN V[k - base] ELSE buf[k]]

\* adds_u8 as a wrapping add (_mm_add_epi8 in place of _mm_adds_epu8).
adds_u8_wrapping(x, y) ==
    IF x = Indet \/ y = Indet THEN Indet ELSE (x + y) % 256

\* Unsigned saturating add of one 8-bit lane.
adds_u8(x, y) ==
    IF x = Indet \/ y = Indet THEN Indet
    ELSE IF x + y > 255 THEN 255 ELSE x + y

\* Unsigned saturating add of one 16-bit lane.
adds_u16(x, y) ==
    IF x = Indet \/ y = Indet THEN Indet
    ELSE IF x + y > 65535 THEN 65535 ELSE x + y

\* _mm_adds_epu8 / _mm256_adds_epu8
mm_adds_epu8(X, Y) == [k \in DOMAIN X |-> adds_u8(X[k], Y[k])]

\* The bytes off .. off+7 of X interleaved with those of Z: one 128-bit result.
interleave8(X, Z, off) ==
    [k \in 0 .. 15 |-> IF k % 2 = 0 THEN X[off + k \div 2] ELSE Z[off + k \div 2]]

mm_setzero(n) == [k \in 0 .. n - 1 |-> 0]

mm_unpacklo_epi8(X, Z) == interleave8(X, Z, 0)

mm_unpackhi_epi8(X, Z) == interleave8(X, Z, 8)

\* The 256-bit unpacks work on each 128-bit half of their operands.
mm256_unpacklo_epi8(X, Z) ==
    [k \in 0 .. 31 |->
        IF k < 16 THEN interleave8(X, Z, 0)[k] ELSE interleave8(X, Z, 16)[k - 16]]

mm256_unpackhi_epi8(X, Z) ==
    [k \in 0 .. 31 |->
        IF k < 16 THEN interleave8(X, Z, 8)[k] ELSE interleave8(X, Z, 24)[k - 16]]

\* The 16-bit lanes of a register given by its bytes (little endian).
epi16(V) ==
    [w \in 0 .. (Cardinality(DOMAIN V) \div 2) - 1 |->
        IF V[2 * w] = Indet \/ V[2 * w + 1] = Indet THEN Indet
        ELSE V[2 * w] + 256 * V[2 * w + 1]]

\* _mm_adds_epu16 / _mm256_adds_epu16, the result given by its 16-bit lanes.
mm_adds_epu16(X, Y) ==
    [w \in DOMAIN epi16(X) |-> adds_u16(epi16(X)[w], epi16(Y)[w])]

----------------------------------------------------------------------------
(* Initial state: the caller has allocated and filled the buffers *)

Init ==
    /\ defs \in SUBSET Macros
    /\ kernel \in Kernels
    /\ \E d \in Dims : width = d[1] /\ height = d[2]
    /\ \E in \in Inputs : pa = in[1] /\ pb = in[2]
    /\ nulls \in NullArgs
    /\ \E cap \in {width * height, RoundUp(width * height, ppl_avx)} :
       mem = [A |-> Filled("A" \in nulls, cap, pa),
              B |-> Filled("B" \in nulls, cap, pb),
              C |-> Fresh(Cells("C" \in nulls, cap))]
    /\ pc = "idle"
    /\ npixels = 0
    /\ i = 0
    /\ j = 0
    /\ rd = {}
    /\ wr = {}
    /\ entered = <<>>
    /\ wrapped = FALSE
    /\ out = <<>>

\* A pointer argument is null.
IsNull(p) == p \in nulls

\* The strategy function the current build and entry point run.
Running == FunctionName(kernel, Strategy(defs))

----------------------------------------------------------------------------
(* img_add_kr and img_add: the entry points *)

\* The caller calls img_add_kr or img_add.
Call ==
    /\ pc = "idle"
    /\ pc' = "assertA"
    /\ UNCHANGED <<defs, kernel, width, height, pa, pb, nulls, mem, npixels, i, j,
                   rd, wr, entered, wrapped, out>>

\* assert_macro with the check compiled out in every build.
assert_macro_disabled(p, here, next) ==
    /\ pc = here
    /\ pc' = next
    /\ UNCHANGED <<defs, kernel, width, height, pa, pb, nulls, mem, npixels, i, j,
                   rd, wr, entered, wrapped, out>>

\* assert(p): a no-op under NDEBUG, else abort() when p is null.
assert_macro(p, here, next) ==
    /\ pc = here
    /\ pc' = IF "NDEBUG" \in defs \/ ~IsNull(p) THEN next ELSE "aborted"
    /\ UNCHANGED <<defs, kernel, width, height, pa, pb, nulls, mem, npixels, i, j,
                   rd, wr, entered, wrapped, out>>

assert_A == assert_macro("A", "assertA", "assertB")

assert_B == assert_macro("B", "assertB", "assertC")

assert_C == assert_macro("C", "assertC", "dispatch")

\* Enter with the loop started at i = 1.
Enter_from_one(fn) ==
    /\ pc = "dispatch"
    /\ Running = fn
    /\ pc' = "loop"
    /\ npixels' = UMul(width, height)
    /\ i' = 1
    /\ j' = 0
    /\ entered' = Append(entered, fn)
    /\ UNCHANGED <<defs, kernel, width, height, pa, pb, nulls, mem, rd, wr, wrapped, out>>

\* The entry of a strategy function: j = 0 (vector widening kernels),
\* npixels = width * height, and the loop's i = 0.
Enter(fn) ==
    /\ pc = "dispatch"
    /\ Running = fn
    /\ pc' = "loop"
    /\ npixels' = UMul(width, height)
    /\ i' = 0
    /\ j' = 0
    /\ entered' = Append(entered, fn)
    /\ UNCHANGED <<defs, kernel, width, height, pa, pb, nulls, mem, rd, wr, wrapped, out>>

\* img_add_kr calls the strategy function of the build.
img_add_kr ==
    /\ kernel = "kr"
    /\ \E s \in Strategies : Enter(FunctionName("kr", s))

\* img_add calls the strategy function of the build.
img_add ==
    /\ kernel = "add"
    /\ \E s \in Strategies : Enter(FunctionName("add", s))

----------------------------------------------------------------------------
(* The loop bodies *)

\* The loop's third clause: i += step, in unsigned int.
Advance(step) ==
    /\ i' = UAdd(i, step)
    /\ wrapped' = (wrapped \/ i + step >= UIntMod)

\* LoopCond as i <= npixels.
LoopCond_inclusive == i <= npixels

\* LoopCond as i + ppl <= npixels: whole lanes inside the image only.
LoopCond_inside == i + Lane(Strategy(defs)) <= npixels

\* The loop's condition.
LoopCond == i < npixels

\* The loop's condition holds in the running function fn: the body runs.
LoopHead(fn) ==
    /\ pc = "loop"
    /\ Running = fn
    /\ LoopCond

img_add_kr_sse ==
    /\ LoopHead("img_add_kr_sse")
    /\ LET X == mm_loadu_si128(mem.A, i)
           Y == mm_loadu_si128(mem.B, i)
           S == mm_adds_epu8(X, Y)
       IN  mem' = [mem EXCEPT !.C = storeu(@, i, S)]
    /\ rd' = rd \cup Span(i, ppl_sse)
    /\ wr' = wr \cup Span(i, ppl_sse)
    /\ Advance(ppl_sse)
    /\ UNCHANGED <<defs, kernel, width, height, pa, pb, nulls, pc, npixels, j, entered, out>>

img_add_kr_avx ==
    /\ LoopHead("img_add_kr_avx")
    /\ LET X == mm256_loadu_si256(mem.A, i)
           Y == mm256_loadu_si256(mem.B, i)
           S == mm_adds_epu8(X, Y)
       IN  mem' = [mem EXCEPT !.C = storeu(@, i, S)]
    /\ rd' = rd \cup Span(i, ppl_avx)
    /\ wr' = wr \cup Span(i, ppl_avx)
    /\ Advance(ppl_avx)
    /\ UNCHANGED <<defs, kernel, width, height, pa, pb, nulls, pc, npixels, j, entered, out>>

\* A[i] or B[i]
At(buf, k) == IF k \in DOMAIN buf THEN buf[k] ELSE Indet

\* C[i] = v; a cell outside the buffer is not part of it.
store(buf, k, v) == IF k \in DOMAIN buf THEN [buf EXCEPT ![k] = v] ELSE buf

\* sum = A[i] + B[i]; if (sum > 255) sum = 255;
ClampedSum(a, b) ==
    IF a = Indet \/ b = Indet THEN Indet
    ELSE IF a + b > UCHAR_MAX THEN UCHAR_MAX ELSE a + b

\* A[i] + B[i]
Sum(a, b) == IF a = Indet \/ b = Indet THEN Indet ELSE a + b

\* The conversion of a value to an unsigned type of `bits` bits on assignment.
Convert(v, bits) == IF v = Indet THEN Indet ELSE v % (2 ^ bits)

img_add_kr_nsu ==
    /\ LoopHead("img_add_kr_nsu")
    /\ LET sum == ClampedSum(At(mem.A, i), At(mem.B, i))
       IN  mem' = [mem EXCEPT !.C = store(@, i, Convert(sum, 8))]
    /\ rd' = rd \cup {i}
    /\ wr' = wr \cup {i}
    /\ Advance(1)
    /\ UNCHANGED <<defs, kernel, width, height, pa, pb, nulls, pc, npixels, j, entered, out>>

\* img_add_sse without the second j += pps.
img_add_sse_one_bump ==
    /\ LoopHead("img_add_sse")
    /\ LET Zero == mm_setzero(16)
           X  == mm_loadu_si128(mem.A, i)
           XL == mm_unpacklo_epi8(X, Zero)
           XH == mm_unpackhi_epi8(X, Zero)
           Y  == mm_loadu_si128(mem.B, i)
           YL == mm_unpacklo_epi8(Y, Zero)
           YH == mm_unpackhi_epi8(Y, Zero)
           SL == mm_adds_epu16(XL, YL)
           SH == mm_adds_epu16(XH, YH)
           j1 == UAdd(j, pps_sse)
       IN  /\ mem' = [mem EXCEPT !.C = storeu(storeu(@, j, SL), j1, SH)]
           /\ wr' = wr \cup Span(j, pps_sse) \cup Span(j1, pps_sse)
           /\ j' = j1
    /\ rd' = rd \cup Span(i, ppl_sse)
    /\ Advance(ppl_sse)
    /\ UNCHANGED <<defs, kernel, width, height, pa, pb, nulls, pc, npixels, entered, out>>

img_add_sse ==
    /\ LoopHead("img_add_sse")
    /\ LET Zero == mm_setzero(16)
           X  == mm_loadu_si128(mem.A, i)
           XL == mm_unpacklo_epi8(X, Zero)
           XH == mm_unpackhi_epi8(X, Zero)
           Y  == mm_loadu_si128(mem.B, i)
           YL == mm_unpacklo_epi8(Y, Zero)
           YH == mm_unpackhi_epi8(Y, Zero)
           SL == mm_adds_epu16(XL, YL)
           SH == mm_adds_epu16(XH, YH)
           j1 == UAdd(j, pps_sse)
       IN  /\ mem' = [mem EXCEPT !.C = storeu(storeu(@, j, SL), j1, SH)]
           /\ wr' = wr \cup Span(j, pps_sse) \cup Span(j1, pps_sse)
           /\ j' = UAdd(j1, pps_sse)
    /\ rd' = rd \cup Span(i, ppl_sse)
    /\ Advance(ppl_sse)
    /\ UNCHANGED <<defs, kernel, width, height, pa, pb, nulls, pc, npixels, entered, out>>

img_add_avx ==
    /\ LoopHead("img_add_avx")
    /\ LET Zero == mm_setzero(32)
           X  == mm256_loadu_si256(mem.A, i)
           XL == mm256_unpacklo_epi8(X, Zero)
           XH == mm256_unpackhi_epi8(X, Zero)
           Y  == mm256_loadu_si256(mem.B, i)
           YL == mm256_unpacklo_epi8(Y, Zero)
           YH == mm256_unpackhi_epi8(Y, Zero)
           SL == mm_adds_epu16(XL, YL)
           SH == mm_adds_epu16(XH, YH)
           j1 == UAdd(j, pps_avx)
       IN  /\ mem' = [mem EXCEPT !.C = storeu(storeu(@, j, SL), j1, SH)]
           /\ wr' = wr \cup Span(j, pps_avx) \cup Span(j1, pps_avx)
           /\ j' = UAdd(j1, pps_avx)
    /\ rd' = rd \cup Span(i, ppl_avx)
    /\ Advance(ppl_avx)
    /\ UNCHANGED <<defs, kernel, width, height, pa, pb, nulls, pc, npixels, entered, out>>

img_add_nsu ==
    /\ LoopHead("img_add_nsu")
    /\ LET sum == Sum(At(mem.A, i), At(mem.B, i))
       IN  mem' = [mem EXCEPT !.C = store(@, i, Convert(sum, 16))]
    /\ rd' = rd \cup {i}
    /\ wr' = wr \cup {i}
    /\ Advance(1)
    /\ UNCHANGED <<defs, kernel, width, height, pa, pb, nulls, pc, npixels, j, entered, out>>

\* The loop's condition i < npixels fails: the strategy function returns.
LoopExit ==
    /\ pc = "loop"
    /\ ~LoopCond
    /\ pc' = "ret"
    /\ UNCHANGED <<defs, kernel, width, height, pa, pb, nulls, mem, npixels, i, j,
                   rd, wr, entered, wrapped, out>>

\* The element indices the next iteration loads from A and from B.
NextLoads == Span(i, Lane(Strategy(defs)))

\* The element indices the next iteration stores to in C.
NextStores ==
    IF Running = "img_add_sse" THEN Span(j, pps_sse) \cup Span(UAdd(j, pps_sse), pps_sse)
    ELSE IF Running = "img_add_avx" THEN Span(j, pps_avx) \cup Span(UAdd(j, pps_avx), pps_avx)
    ELSE NextLoads

\* The next iteration accesses an element outside a buffer (or through a null
\* pointer): undefined behaviour.
Undefined ==
    \/ ~(NextLoads \subseteq DOMAIN mem.A)
    \/ ~(NextLoads \subseteq DOMAIN mem.B)
    \/ ~(NextStores \subseteq DOMAIN mem.C)

\* One outcome of an access outside a buffer: the process is killed.  The other
\* outcome is that the iteration goes through with indeterminate values.
Fault ==
    /\ pc = "loop"
    /\ LoopCond
    /\ Undefined
    /\ pc' = "fault"
    /\ UNCHANGED <<defs, kernel, width, height, pa, pb, nulls, mem, npixels, i, j,
                   rd, wr, entered, wrapped, out>>

\* The entry point returns to the caller, who keeps the output.
Return ==
    /\ pc = "ret"
    /\ pc' = "done"
    /\ out' = (Strategy(defs) :> mem.C) @@ out
    /\ UNCHANGED <<defs, kernel, width, height, pa, pb, nulls, mem, npixels, i, j,
                   rd, wr, entered, wrapped>>

\* The library is built with another choice of __WIN_SSE__ / __WIN_AVX__ and
\* the caller repeats the call on the same input with a fresh output buffer.
Rebuild ==
    /\ pc = "done"
    /\ \E d \in SUBSET WinMacros :
          /\ Strategy(d) \notin DOMAIN out
          /\ defs' = (defs \cap {"NDEBUG"}) \cup d
    /\ mem' = [mem EXCEPT !.C = Fresh(DOMAIN @)]
    /\ pc' = "idle"
    /\ npixels' = 0
    /\ i' = 0
    /\ j' = 0
    /\ rd' = {}
    /\ wr' = {}
    /\ entered' = <<>>
    /\ wrapped' = FALSE
    /\ UNCHANGED <<kernel, width, height, pa, pb, nulls, out>>

Next ==
    \/ Call
    \/ assert_A
    \/ assert_B
    \/ assert_C
    \/ img_add_kr
    \/ img_add
    \/ img_add_kr_sse
    \/ img_add_kr_avx
    \/ img_add_kr_nsu
    \/ img_add_sse
    \/ img_add_avx
    \/ img_add_nsu
    \/ LoopExit
    \/ Fault
    \/ Return
    \/ Rebuild

Spec == Init /\ [][Next]_vars

----------------------------------------------------------------------------
(* Vocabulary of the properties *)

\* The C expression width * height, as every strategy function computes it.
N == UMul(width, height)

\* The lane width of the build's strategy (1 for the scalar strategy).
L == Lane(Strategy(defs))

\* All three pointer arguments are non-null.
NonNull == nulls = {}

\* The call has returned from the strategy function.
Returned == pc \in {"ret", "done"}

\* The build runs a vector strategy.
Vectorized == Strategy(defs) \in {"sse", "avx"}

\* The inputs at index k, as the caller filled them before the call.
a(k) == Pixel(pa, k)

b(k) == Pixel(pb, k)

Min(x, y) == IF x < y THEN x ELSE y

----------------------------------------------------------------------------
(* C1 *)

\* C1: after img_add on non-null buffers with width*height a multiple of 32,
\* C[k] = A[k] + B[k] at every k in [0, N), under each of the three strategies.
C1_WideningAdd ==
    (pc = "done" /\ kernel = "add" /\ NonNull /\ N % 32 = 0)
        => \A k \in 0 .. N - 1 : mem.C[k] = a(k) + b(k)

----------------------------------------------------------------------------
(* C2 *)

\* C2: after img_add_kr on non-null buffers with width*height a multiple of 32,
\* C[k] = min(A[k] + B[k], 255) at every k in [0, N), under each of the three
\* strategies; no output value exceeds 255.
C2_SaturatingAdd ==
    (pc = "done" /\ kernel = "kr" /\ NonNull /\ N % 32 = 0)
        => \A k \in 0 .. N - 1 :
              /\ mem.C[k] = Min(a(k) + b(k), 255)
              /\ mem.C[k] <= 255

\* All three builds have produced the saturating sum of an image of two or
\* more AVX lanes in which some sums saturate and others do not.
C2_Witness ==
    /\ pc = "done"
    /\ kernel = "kr"
    /\ NonNull
    /\ N % 32 = 0
    /\ N >= 64
    /\ DOMAIN out = Strategies
    /\ \E k \in 0 .. N - 1 : a(k) + b(k) > 255 /\ mem.C[k] = 255
    /\ \E k \in 0 .. N - 1 : a(k) + b(k) \in 1 .. 254 /\ mem.C[k] = a(k) + b(k)

----------------------------------------------------------------------------
(* C3 *)

\* C3: for non-null buffers and width*height a multiple of 32, the builds that
\* have run on the same input have left identical outputs C[0..N), for the
\* saturating kernel and for the widening kernel.
C3_CrossStrategy ==
    (NonNull /\ N % 32 = 0)
        => \A s, t \in DOMAIN out : \A k \in 0 .. N - 1 : out[s][k] = out[t][k]

----------------------------------------------------------------------------
(* C4 *)

\* C4: during and after a call on non-null buffers with width*height a
\* multiple of the strategy's lane width, A and B hold what they held at call
\* entry; at return every element of C[0..N) has been written; and at the head
\* of every iteration of a vector widening loop the store cursor j equals the
\* load cursor i, the stores so far covering exactly C[0..i).
C4_FrameCoverage ==
    (NonNull /\ N % L = 0)
        => /\ \A k \in DOMAIN mem.A : mem.A[k] = a(k)
           /\ \A k \in DOMAIN mem.B : mem.B[k] = b(k)
           /\ Returned =>
                 /\ wr = 0 .. N - 1
                 /\ \A k \in 0 .. N - 1 : mem.C[k] # Indet
           /\ (pc = "loop" /\ Running \in {"img_add_sse", "img_add_avx"}) =>
                 /\ j = i
                 /\ wr = 0 .. i - 1

\* A vector widening loop is at the head of its third iteration, and has
\* another one to go.
C4_Witness ==
    /\ NonNull
    /\ N % L = 0
    /\ pc = "loop"
    /\ Running = "img_add_sse"
    /\ i = 2 * ppl_sse
    /\ j = i
    /\ i < npixels
    /\ wr = 0 .. i - 1
    /\ \A k \in 0 .. i - 1 : mem.C[k] # Indet

----------------------------------------------------------------------------
(* C5 *)

\* C5: when width*height is a multiple of the strategy's lane width (16 for
\* SSE, 32 for AVX, every count for the scalar strategy), every element index
\* the kernels have loaded from A and B or stored to in C lies in [0, N).
C5_LaneBoundary ==
    (N % L = 0) => (rd \subseteq 0 .. N - 1 /\ wr \subseteq 0 .. N - 1)

\* The AVX widening kernel has returned from an image of exactly one lane.
C5_Witness ==
    /\ pc = "done"
    /\ Running = "img_add_avx"
    /\ npixels = ppl_avx
    /\ rd = 0 .. ppl_avx - 1
    /\ wr = 0 .. ppl_avx - 1

----------------------------------------------------------------------------
(* C6 *)

\* C6: when width*height is 0, a call under any strategy never finds the loop
\* condition true, loads no element of A or B, stores to no element of C, does
\* not fault, and (the asserts passed) is not aborted.
C6_EmptyImage ==
    (N = 0)
        => /\ rd = {}
           /\ wr = {}
           /\ pc = "loop" => ~(i < npixels)
           /\ i = 0
           /\ pc # "fault"
           /\ NonNull => pc # "aborted"

\* A vector build has returned from a call with width 0 and a nonzero height.
C6_Witness ==
    /\ pc = "done"
    /\ width = 0
    /\ height > 0
    /\ Vectorized
    /\ NonNull
    /\ rd = {}
    /\ wr = {}

----------------------------------------------------------------------------
(* C7 *)

\* C7: in a build without NDEBUG, a call with a null A, B or C never gets past
\* the asserts: no strategy function is entered, nothing is loaded or stored
\* and the call does not return; a call with three non-null pointers is never
\* aborted and, once past the asserts, has entered exactly one strategy
\* function, the one the build selects.
C7_NullAssert ==
    ("NDEBUG" \notin defs)
        => /\ ~NonNull =>
                 /\ pc \in {"idle", "assertA", "assertB", "assertC", "aborted"}
                 /\ entered = <<>>
                 /\ rd = {}
                 /\ wr = {}
                 /\ out = <<>>
           /\ NonNull =>
                 /\ pc # "aborted"
                 /\ pc \in {"loop", "ret", "done", "fault"} => entered = <<Running>>
                 /\ pc \in {"idle", "assertA", "assertB", "assertC", "dispatch"}
                       => entered = <<>>

\* The call was aborted by assert(C) after assert(A) and assert(B) passed.
C7_Witness ==
    /\ "NDEBUG" \notin defs
    /\ nulls = {"C"}
    /\ pc = "aborted"
    /\ entered = <<>>

----------------------------------------------------------------------------
(* C8 *)

\* C8: a vector strategy of lane width L loads and stores whole lanes only:
\* every index it accesses is below ceil(N/L)*L, and when it returns it has
\* loaded A and B and stored to C at exactly the indices [0, ceil(N/L)*L); so
\* when N is no multiple of L it has loaded and stored at indices >= N.
C8_WholeLanes ==
    Vectorized
        => /\ rd \subseteq 0 .. RoundUp(N, L) - 1
           /\ wr \subseteq 0 .. RoundUp(N, L) - 1
           /\ pc = "loop" => i % L = 0
           /\ Returned =>
                 /\ rd = 0 .. RoundUp(N, L) - 1
                 /\ wr = 0 .. RoundUp(N, L) - 1
                 /\ N % L # 0 => (N .. RoundUp(N, L) - 1) \subseteq (rd \cap wr)
                 /\ (rd = 0 .. N - 1) <=> (N % L = 0)

\* The SSE saturating kernel has returned from the 4x1 image, having accessed
\* the indices 0 .. 15.
C8_Witness ==
    /\ pc = "done"
    /\ Running = "img_add_kr_sse"
    /\ width = 4
    /\ height = 1
    /\ rd = 0 .. 15
    /\ wr = 0 .. 15

----------------------------------------------------------------------------
(* C9 *)

\* C9: the loop counter i never wraps around: no `i += step` overflows the
\* unsigned int before the loop condition i < npixels fails.
C9_NoWrap == ~wrapped

----------------------------------------------------------------------------
(* C10 *)

\* C10: the npixels a strategy function computes equals the mathematical image
\* size width x height, for every width and height.
C10_NoProductWrap ==
    pc \in {"loop", "ret", "done", "fault"} => npixels = width * height

====
